---- MODULE Spec2Model ----
(***************************************************************************)
(* A model of the cachemem package.  src/cachemem.go holds two variants    *)
(* of the cache:                                                           *)
(*   - the eager variant (lines 1-74): Cache over asyncMap, entries with   *)
(*     an optional deadline, one time.AfterFunc deletion per SetWithExpiry;*)
(*   - the lazy variant (lines 76-267): Cache over a plain map guarded by  *)
(*     a mutex on writes, expiry checked on read, a sweep loop             *)
(*     (StartCleaning/StopCleaning/clean), and the fetch-through layer     *)
(*     (GetOrFetch/FetchMany) over an external Fetcher.                    *)
(* Time is an integer clock `now` advanced by Tick.                        *)
(***************************************************************************)
EXTENDS Integers, Sequences, FiniteSets, Bags, TLC

\* ------------------------------------------------------------------ bounds
MaxTime == 2
MaxTTL == 1
MaxTimers == 2
MaxBatch == 2

\* the key type K and the payloads that tell values apart
Keys == {1, 2}
Payloads == {1, 2}
Times == 0..MaxTime
\* durations a caller passes: negative, zero and positive
TTLs == (0 - 1)..MaxTTL

\* time.Time{}: the zero instant, long before any instant of the clock
ZeroTime == -1000

VARIABLES
    now,          \* time.Now()
    \* ---- eager variant
    estore,       \* Cache.store.store: the asyncMap's map, key -> entry
    timers,       \* pending time.AfterFunc deletions, a bag of [key, at]
    lastWrite,    \* history: per key, the latest caller operation on it
    \* ---- lazy variant
    store,        \* Cache.store: key -> entry
    call,         \* the last GetOrFetch/FetchMany invocation: its arguments, the
                  \* upstream calls it made and what it returned
    gof,          \* history: per key, what the last successful GetOrFetch miss
                  \* on that key fetched, until a Delete of the key or a Clear
    \* ---- lazy variant: the sweep
    isCleaning,   \* Cache.isCleaning
    cpc,          \* per thread calling StartCleaning: where it is in the call
    todo,         \* per such thread: the keys clean's range has yet to produce
    cur,          \* per such thread: the key clean is about to Delete
    due,          \* history, per such thread: the keys whose entry had expired
                  \* when its pass began and was not written since
    ranged,       \* per such thread: the map its range runs over, once Clear
                  \* has put another map in cache.store
    spc,          \* per thread calling StopCleaning: where it is in the call
    halted,       \* history: a StopCleaning call issued after StartCleaning was
                  \* invoked has returned and StartCleaning was not called since
    \* ---- both variants: the locks around the map
    tpc,          \* per thread: the map operation it is in and how far it is
    rwmutex,      \* asyncMap.mutex (sync.RWMutex): its writer and its readers
    mutex,        \* Cache.mutex of the lazy variant (sync.Mutex): its holder
    \* ---- lazy variant: Clear
    cleared       \* history: "yes" once Clear has returned, until the next Set
                  \* or fetch write-back; "unused" while no call was made

vars == <<now, estore, timers, lastWrite, store, call, gof,
          isCleaning, cpc, todo, cur, due, ranged, spc, halted, tpc, rwmutex, mutex,
          cleared>>

accessVars == <<tpc, rwmutex, mutex>>

sweepVars == <<isCleaning, cpc, todo, cur, due, ranged, spc, halted>>

eagerVars == <<estore, timers, lastWrite>>
lazyVars == <<store, call>>

\* ------------------------------------------------------------ Go maps
\* A Go map is a function on the set of keys it holds.
EmptyMap == [k \in {} |-> 0]

MapSet(m, k, e) == [x \in (DOMAIN m) \cup {k} |-> IF x = k THEN e ELSE m[x]]

MapDelete(m, k) == [x \in (DOMAIN m) \ {k} |-> m[x]]

\* ====================================================== the eager variant
\* the zero value of V, returned with a not-found
EagerZeroValue == 0

EagerZeroEntry == [value |-> EagerZeroValue, expiresAt |-> ZeroTime]

\* asyncMap.Get: (record, exists); a missing key gives the zero entry
asyncMapGet(m, k) ==
    IF k \in DOMAIN m THEN [record |-> m[k], exists |-> TRUE]
    ELSE [record |-> EagerZeroEntry, exists |-> FALSE]

asyncMapSet(m, k, e) == MapSet(m, k, e)

asyncMapDelete(m, k) == MapDelete(m, k)

asyncMapClear(m) == EmptyMap

asyncMapLen(m) == Cardinality(DOMAIN m)

IsZero(t) == t = ZeroTime

\* t.After(u)
After(t, u) == t > u

\* Cache.Get of the eager variant, as a function of the store and the clock
EagerGetAt(m, k, t) ==
    LET r == asyncMapGet(m, k)
    IN  IF ~r.exists
           \/ (r.exists /\ ~IsZero(r.record.expiresAt) /\ ~After(r.record.expiresAt, t))
        THEN [value |-> r.record.value, ok |-> FALSE]
        ELSE [value |-> r.record.value, ok |-> TRUE]

EagerGet(k) == EagerGetAt(estore, k, now)

EagerLen == asyncMapLen(estore)

\* a caller's operation on a key, as lastWrite records it: the value written,
\* the deadline now + expiresIn, and whether expiresIn > 0
Write(op, v, deadline, timed) ==
    [op |-> op, value |-> v, deadline |-> deadline, timed |-> timed]

NoWrite == Write("none", EagerZeroValue, ZeroTime, FALSE)

\* Cache.Set(key, value): an entry with the zero deadline
EagerSet(k, v) ==
    /\ estore' = asyncMapSet(estore, k, [value |-> v, expiresAt |-> ZeroTime])
    /\ lastWrite' = [lastWrite EXCEPT ![k] = Write("Set", v, ZeroTime, FALSE)]
    /\ UNCHANGED <<now, timers, lazyVars>>

\* the timer SetWithExpiry arms: none unless expiresIn > 0
ArmTimer(k, expiresIn) ==
    IF expiresIn > 0
    THEN timers (+) SetToBag({[key |-> k, at |-> now + expiresIn]})
    ELSE timers

\* Cache.SetWithExpiry(key, value, expiresIn)
SetWithExpiry(k, v, expiresIn) ==
    /\ expiresIn > 0 => /\ BagCardinality(timers) < MaxTimers
                        /\ now + expiresIn <= MaxTime
    /\ estore' = asyncMapSet(estore, k, [value |-> v, expiresAt |-> now + expiresIn])
    /\ timers' = ArmTimer(k, expiresIn)
    /\ lastWrite' = [lastWrite EXCEPT ![k] =
                        Write("SetWithExpiry", v, now + expiresIn, expiresIn > 0)]
    /\ UNCHANGED <<now, lazyVars>>

\* the function time.AfterFunc runs, at or after its instant: store.Delete(key)
FireTimer(t) ==
    /\ BagIn(t, timers)
    /\ now >= t.at
    /\ timers' = timers (-) SetToBag({t})
    /\ estore' = asyncMapDelete(estore, t.key)
    /\ UNCHANGED <<now, lastWrite, lazyVars>>

\* Cache.Delete(key)
EagerDelete(k) ==
    /\ estore' = asyncMapDelete(estore, k)
    /\ lastWrite' = [lastWrite EXCEPT ![k] = Write("Delete", EagerZeroValue, ZeroTime, FALSE)]
    /\ UNCHANGED <<now, timers, lazyVars>>

\* Cache.Clear()
EagerClear ==
    /\ estore' = asyncMapClear(estore)
    /\ lastWrite' = [k \in Keys |-> Write("Clear", EagerZeroValue, ZeroTime, FALSE)]
    /\ UNCHANGED <<now, timers, lazyVars>>

\* ======================================================= the lazy variant
\* values carry their key: V = (key, payload), getKey reads the key back
Values == Keys \X Payloads

getKey(v) == v[1]

\* the zero value of V
ZeroValue == <<0, 0>>

ZeroEntry == [value |-> ZeroValue, expiresAt |-> ZeroTime]

\* gof[k]: whether a GetOrFetch miss on k has fetched a value, that value and
\* the deadline now + expiresIn of its entry
NoFetch == [fetched |-> FALSE, value |-> ZeroValue, expiresAt |-> ZeroTime]

\* errors the fetcher can return; Nil is no error
Errors == {"e1", "e2"}
Nil == "nil"

\* entry.hasExpired at clock t
hasExpired(e, t) == After(t, e.expiresAt)

\* cache.store[key]: e, exists
Lookup(m, k) ==
    IF k \in DOMAIN m THEN [e |-> m[k], exists |-> TRUE]
    ELSE [e |-> ZeroEntry, exists |-> FALSE]

\* Get that leaves expiry to the sweep: found iff the map holds the key
GetAtUnswept(m, k, t) ==
    LET r == Lookup(m, k)
    IN  [value |-> r.e.value, ok |-> r.exists]

\* Cache.Get of the lazy variant, as a function of the store and the clock
GetAt(m, k, t) ==
    LET r == Lookup(m, k)
    IN  IF ~r.exists \/ hasExpired(r.e, t)
        THEN [value |-> r.e.value, ok |-> FALSE]
        ELSE [value |-> r.e.value, ok |-> TRUE]

Get(k) == GetAt(store, k, now)

RECURSIVE GetManyAtOnce(_, _, _)
\* GetMany that returns one value per key, however often the key is asked for
GetManyAtOnce(m, keys, t) ==
    IF keys = <<>> THEN <<>>
    ELSE LET g == GetAt(m, Head(keys), t)
             again == \E i \in 1..Len(Tail(keys)) : Tail(keys)[i] = Head(keys)
         IN  (IF g.ok /\ ~again THEN <<g.value>> ELSE <<>>)
                 \o GetManyAtOnce(m, Tail(keys), t)

RECURSIVE GetManyAt(_, _, _)
\* Cache.GetMany: the values of the keys that Get finds, in request order
GetManyAt(m, keys, t) ==
    IF keys = <<>> THEN <<>>
    ELSE LET g == GetAt(m, Head(keys), t)
         IN  (IF g.ok THEN <<g.value>> ELSE <<>>) \o GetManyAt(m, Tail(keys), t)

GetMany(keys) == GetManyAt(store, keys, now)

\* Cache.Len: the entries of the map, expired ones included
CacheLen == Cardinality(DOMAIN store)

\* a setter that files the entry under the payload of its value
setUnderPayload(m, e) == MapSet(m, e.value[2], e)

\* Cache.set: files the entry under the key of its value
set(m, e) == MapSet(m, getKey(e.value), e)

\* an invocation of the caller: the operation, its arguments, the calls it made
\* to the Fetcher, and what it returned (out, err)
Call(op, arg, expiresIn, upstream, out, err) ==
    [op |-> op, arg |-> arg, expiresIn |-> expiresIn, upstream |-> upstream,
     out |-> out, err |-> err]

NoCall == Call("none", <<>>, 0, <<>>, <<>>, Nil)

\* the caller's previous invocation has returned
Returned == call.op = "none"

\* the caller takes the result of its invocation
Return ==
    /\ ~Returned
    /\ call' = NoCall
    /\ UNCHANGED <<now, store, eagerVars>>

\* one call of the Fetcher: the function, its argument and the error it gave
Upstream(fn, arg, err) == [fn |-> fn, arg |-> arg, err |-> err]

\* Cache.Set(value, expiresIn)
Set(v, expiresIn) ==
    /\ Returned
    /\ expiresIn > 0 => now + expiresIn <= MaxTime
    /\ store' = set(store, [value |-> v, expiresAt |-> now + expiresIn])
    /\ UNCHANGED <<now, call, eagerVars>>

\* Cache.Delete(key)
Delete(k) ==
    /\ Returned
    /\ store' = MapDelete(store, k)
    /\ UNCHANGED <<now, call, eagerVars>>

\* Clear that drops the expired entries only
ClearExpired ==
    /\ Returned
    /\ store' = [k \in {x \in DOMAIN store : ~hasExpired(store[x], now)} |-> store[k]]
    /\ UNCHANGED <<now, call, eagerVars>>

\* Cache.Clear()
Clear ==
    /\ Returned
    /\ store' = EmptyMap
    /\ UNCHANGED <<now, call, eagerVars>>

\* a call of Cache.Get(key)
CallGet(k) ==
    /\ Returned
    /\ call' = Call("Get", k, 0, <<>>, Get(k), Nil)
    /\ UNCHANGED <<now, store, eagerVars>>

\* a call of Cache.GetMany(keys)
CallGetMany(keys) ==
    /\ Returned
    /\ call' = Call("GetMany", keys, 0, <<>>, GetMany(keys), Nil)
    /\ UNCHANGED <<now, store, eagerVars>>

\* a call of Cache.Len()
CallLen ==
    /\ Returned
    /\ call' = Call("Len", <<>>, 0, <<>>, CacheLen, Nil)
    /\ UNCHANGED <<now, store, eagerVars>>

\* what Fetcher.FetchOne can answer: a value and an error or nil
FetchOneAnswers == [value : Values, err : Errors \cup {Nil}]

\* GetOrFetch that fetches without consulting the cache
GetOrFetchNoLookup(key, expiresIn, r) ==
    /\ Returned
    /\ expiresIn > 0 => now + expiresIn <= MaxTime
    /\ IF r.err # Nil
       THEN /\ call' = Call("GetOrFetch", key, expiresIn,
                            <<Upstream("FetchOne", key, r.err)>>, ZeroValue, r.err)
            /\ UNCHANGED store
       ELSE /\ store' = set(store, [value |-> r.value, expiresAt |-> now + expiresIn])
            /\ call' = Call("GetOrFetch", key, expiresIn,
                            <<Upstream("FetchOne", key, Nil)>>, r.value, Nil)
    /\ UNCHANGED <<now, eagerVars>>

\* GetOrFetch that caches what the fetcher returned before looking at its error
GetOrFetchCachesOnError(key, expiresIn, r) ==
    LET cached == Get(key)
    IN  /\ Returned
        /\ expiresIn > 0 => now + expiresIn <= MaxTime
        /\ IF cached.ok
           THEN /\ call' = Call("GetOrFetch", key, expiresIn, <<>>, cached.value, Nil)
                /\ UNCHANGED store
           ELSE /\ store' = set(store, [value |-> r.value, expiresAt |-> now + expiresIn])
                /\ call' = Call("GetOrFetch", key, expiresIn,
                                <<Upstream("FetchOne", key, r.err)>>,
                                IF r.err # Nil THEN ZeroValue ELSE r.value, r.err)
        /\ UNCHANGED <<now, eagerVars>>

\* GetOrFetch that files the fetched value under the requested key
GetOrFetchUnderKey(key, expiresIn, r) ==
    LET cached == Get(key)
    IN  /\ Returned
        /\ expiresIn > 0 => now + expiresIn <= MaxTime
        /\ IF cached.ok
           THEN /\ call' = Call("GetOrFetch", key, expiresIn, <<>>, cached.value, Nil)
                /\ UNCHANGED store
           ELSE IF r.err # Nil
           THEN /\ call' = Call("GetOrFetch", key, expiresIn,
                                <<Upstream("FetchOne", key, r.err)>>, ZeroValue, r.err)
                /\ UNCHANGED store
           ELSE /\ store' = MapSet(store, key,
                                   [value |-> r.value, expiresAt |-> now + expiresIn])
                /\ call' = Call("GetOrFetch", key, expiresIn,
                                <<Upstream("FetchOne", key, Nil)>>, r.value, Nil)
        /\ UNCHANGED <<now, eagerVars>>

\* Cache.GetOrFetch(key, expiresIn); r is the fetcher's answer, used on a miss
GetOrFetch(key, expiresIn, r) ==
    LET cached == Get(key)
    IN  /\ Returned
        /\ expiresIn > 0 => now + expiresIn <= MaxTime
        /\ IF cached.ok
           THEN /\ call' = Call("GetOrFetch", key, expiresIn, <<>>, cached.value, Nil)
                /\ UNCHANGED store
           ELSE IF r.err # Nil
           THEN /\ call' = Call("GetOrFetch", key, expiresIn,
                                <<Upstream("FetchOne", key, r.err)>>, ZeroValue, r.err)
                /\ UNCHANGED store
           ELSE /\ store' = set(store, [value |-> r.value, expiresAt |-> now + expiresIn])
                /\ call' = Call("GetOrFetch", key, expiresIn,
                                <<Upstream("FetchOne", key, Nil)>>, r.value, Nil)
        /\ UNCHANGED <<now, eagerVars>>

\* the key list with no key filtered out
keysToFetchAll(arrK) == arrK

\* the keys FetchMany passes upstream: those of arrK that Get does not find
keysToFetch(arrK) == SelectSeq(arrK, LAMBDA key : ~Get(key).ok)

RECURSIVE WriteBack(_, _, _)
\* FetchMany's write-back loop: set every returned value, in order, with the
\* one deadline computed at the start of the call
WriteBack(m, values, expiresAt) ==
    IF values = <<>> THEN m
    ELSE WriteBack(set(m, [value |-> Head(values), expiresAt |-> expiresAt]),
                   Tail(values), expiresAt)

\* sequences over S of length at most n
SeqsUpTo(S, n) == UNION {[1..i -> S] : i \in 0..n}

\* the key lists a caller passes to FetchMany and GetMany
KeyLists == SeqsUpTo(Keys, MaxBatch)

\* what Fetcher.FetchMany can answer: some values (fewer or other than the
\* keys asked for), or an error, with or without a value beside it
FetchManyAnswers ==
    [values : SeqsUpTo(Values, MaxBatch), err : {Nil}]
        \cup [values : {<<>>} \cup {<<v>> : v \in Values}, err : Errors]

\* the write-back without the error check before it
StoreAfterFetchManyUnchecked(r, expiresAt) == WriteBack(store, r.values, expiresAt)

\* the store FetchMany leaves: untouched on an error, else the write-back
StoreAfterFetchMany(r, expiresAt) ==
    IF r.err # Nil THEN store ELSE WriteBack(store, r.values, expiresAt)

\* Cache.FetchMany(arrK, expiresIn); r is the fetcher's answer
FetchMany(arrK, expiresIn, r) ==
    LET expiresAt == now + expiresIn
        toFetch == keysToFetch(arrK)
    IN  /\ Returned
        /\ expiresIn > 0 => now + expiresIn <= MaxTime
        /\ call' = Call("FetchMany", arrK, expiresIn,
                        <<Upstream("FetchMany", toFetch, r.err)>>, <<>>, r.err)
        /\ store' = StoreAfterFetchMany(r, expiresAt)
        /\ UNCHANGED <<now, eagerVars>>

\* ------------------------------------------------ the sweep (lazy variant)
\* the threads that call StartCleaning and those that call StopCleaning
Cleaners == {1, 2}
Stoppers == {1, 2}

\* the range of clean runs over the map in cache.store
SameMap == [replaced |-> FALSE, m |-> EmptyMap]

\* the map the range of thread c runs over
RangedMap(c) == IF ranged[c].replaced THEN ranged[c].m ELSE store

\* thread c is inside StartCleaning's for/select loop
Running(c) == cpc[c] \in {"loop", "clean", "delete"}

\* StartCleaning, first statement: if cache.isCleaning { return }
StartCheck(c) ==
    /\ cpc[c] = "idle"
    /\ cpc' = [cpc EXCEPT ![c] = IF isCleaning THEN "idle" ELSE "set"]
    /\ halted' = FALSE
    /\ UNCHANGED <<now, store, call, isCleaning, todo, cur, ranged, spc, due, eagerVars>>

\* StartCleaning: cache.isCleaning = true, the ticker starts, the loop is entered
StartSet(c) ==
    /\ cpc[c] = "set"
    /\ isCleaning' = TRUE
    /\ cpc' = [cpc EXCEPT ![c] = "loop"]
    /\ UNCHANGED <<now, store, call, todo, cur, ranged, spc, halted, due, eagerVars>>

\* the select takes a tick: clean() starts its range over the map
SweepBegin(c) ==
    /\ cpc[c] = "loop"
    /\ cpc' = [cpc EXCEPT ![c] = "clean"]
    /\ todo' = [todo EXCEPT ![c] = DOMAIN store]
    /\ ranged' = [ranged EXCEPT ![c] = SameMap]
    /\ due' = [due EXCEPT ![c] = {k \in DOMAIN store : store[k].expiresAt < now}]
    /\ UNCHANGED <<now, store, call, isCleaning, cur, spc, halted, eagerVars>>

\* clean: the range produces the next entry (one removed meanwhile is not
\* produced) and tests v.hasExpired()
CleanVisit(c, k) ==
    /\ cpc[c] = "clean"
    /\ k \in todo[c]
    /\ todo' = [todo EXCEPT ![c] = @ \ {k}]
    /\ IF k \in DOMAIN RangedMap(c) /\ hasExpired(RangedMap(c)[k], now)
       THEN /\ cpc' = [cpc EXCEPT ![c] = "delete"]
            /\ cur' = [cur EXCEPT ![c] = k]
       ELSE UNCHANGED <<cpc, cur>>
    /\ UNCHANGED <<now, store, call, isCleaning, ranged, spc, halted, due, eagerVars>>

\* clean that returns after its first deletion
CleanDeleteAndReturn(c) ==
    /\ cpc[c] = "delete"
    /\ store' = MapDelete(store, cur[c])
    /\ cpc' = [cpc EXCEPT ![c] = "loop"]
    /\ cur' = [cur EXCEPT ![c] = 0]
    /\ todo' = [todo EXCEPT ![c] = {}]
    /\ ranged' = [ranged EXCEPT ![c] = SameMap]
    /\ due' = [due EXCEPT ![c] = {}]
    /\ UNCHANGED <<now, call, isCleaning, spc, halted, eagerVars>>

\* clean: cache.Delete(k) of the entry found expired
CleanDelete(c) ==
    /\ cpc[c] = "delete"
    /\ store' = MapDelete(store, cur[c])
    /\ cpc' = [cpc EXCEPT ![c] = "clean"]
    /\ cur' = [cur EXCEPT ![c] = 0]
    /\ UNCHANGED <<now, call, isCleaning, todo, ranged, spc, halted, due, eagerVars>>

\* clean returns: the range is over
CleanDone(c) ==
    /\ cpc[c] = "clean"
    /\ todo[c] = {}
    /\ cpc' = [cpc EXCEPT ![c] = "loop"]
    /\ ranged' = [ranged EXCEPT ![c] = SameMap]
    /\ due' = [due EXCEPT ![c] = {}]
    /\ UNCHANGED <<now, store, call, isCleaning, todo, cur, spc, halted, eagerVars>>

\* StopCleaning, first statement: if !cache.isCleaning { return }; else the
\* call goes on to send on signalStopClean
StopCheck(s) ==
    /\ spc[s] = "idle"
    /\ IF isCleaning
       THEN /\ spc' = [spc EXCEPT ![s] = "send"]
            /\ UNCHANGED halted
       ELSE /\ UNCHANGED spc
            /\ halted' = (halted \/ \E c \in Cleaners : cpc[c] # "idle")
    /\ UNCHANGED <<now, store, call, isCleaning, cpc, todo, cur, ranged, due, eagerVars>>

\* the unbuffered channel signalStopClean: the send of s meets the receive of
\* c's select; StopCleaning returns, c leaves the loop
StopDeliver(s, c) ==
    /\ spc[s] = "send"
    /\ cpc[c] = "loop"
    /\ spc' = [spc EXCEPT ![s] = "idle"]
    /\ cpc' = [cpc EXCEPT ![c] = "stopping"]
    /\ halted' = TRUE
    /\ UNCHANGED <<now, store, call, isCleaning, todo, cur, ranged, due, eagerVars>>

\* StartCleaning after the receive: ticker.Stop(), cache.isCleaning = false, return
StartExit(c) ==
    /\ cpc[c] = "stopping"
    /\ isCleaning' = FALSE
    /\ cpc' = [cpc EXCEPT ![c] = "idle"]
    /\ UNCHANGED <<now, store, call, todo, cur, ranged, spc, halted, due, eagerVars>>

\* an entry a caller creates while a range is under way may be produced by
\* the range or skipped: the values todo can take when key k is written
TodoAfterWrite(k) ==
    IF k \in DOMAIN store THEN {todo}
    ELSE {[c \in Cleaners |-> IF c \in A THEN todo[c] \cup {k} ELSE todo[c]] :
              A \in SUBSET {c \in Cleaners : /\ cpc[c] \in {"clean", "delete"}
                                               /\ ~ranged[c].replaced}}

\* due once a caller has written a new entry under key k
DueAfterWrite(k) == [c \in Cleaners |-> due[c] \ {k}]

\* Clear puts a new map in cache.store: a range under way goes on over the map
\* it started on, which no later call writes
RangedAfterClear ==
    [c \in Cleaners |->
        IF cpc[c] \in {"clean", "delete"} /\ ~ranged[c].replaced
        THEN [replaced |-> TRUE, m |-> [k \in todo[c] \cap DOMAIN store |-> store[k]]]
        ELSE ranged[c]]

\* ------------------------------------------ the locks around the two maps
\* the threads that call into the caches at the same time
Threads == {1, 2}

\* the operations that touch the map, by variant and by what they do to it:
\* asyncMap's methods, and the lazy Cache's set, Delete, Clear (writes) and
\* Get, Len, clean's range (reads)
MapOps ==
    [variant : {"eager"}, op : {"Set", "Delete", "Clear"}, kind : {"write"}]
        \cup [variant : {"eager"}, op : {"Get", "Len"}, kind : {"read"}]
        \cup [variant : {"lazy"}, op : {"set", "Delete", "Clear"}, kind : {"write"}]
        \cup [variant : {"lazy"}, op : {"Get", "Len", "clean"}, kind : {"read"}]

\* a thread outside any map operation
Idle == [variant |-> "none", op |-> "none", kind |-> "none", at |-> "idle"]

\* thread t is executing the statement of its operation that touches the map
Accessing(t, variant, kind) ==
    tpc[t].at = "in" /\ tpc[t].variant = variant /\ tpc[t].kind = kind

\* thread t enters a map operation
Enter(t, o) ==
    /\ tpc[t] = Idle
    /\ tpc' = [tpc EXCEPT ![t] = [variant |-> o.variant, op |-> o.op,
                                  kind |-> o.kind, at |-> "called"]]
    /\ UNCHANGED <<rwmutex, mutex>>

\* asyncMap.Set/Delete/Clear: m.mutex.Lock(), then the write
asyncMapLock(t) ==
    /\ tpc[t].at = "called" /\ tpc[t].variant = "eager" /\ tpc[t].kind = "write"
    /\ rwmutex.writer = 0 /\ rwmutex.readers = {}
    /\ rwmutex' = [rwmutex EXCEPT !.writer = t]
    /\ tpc' = [tpc EXCEPT ![t].at = "in"]
    /\ UNCHANGED mutex

\* asyncMap.Set/Delete/Clear: m.mutex.Unlock() after the write
asyncMapUnlock(t) ==
    /\ Accessing(t, "eager", "write")
    /\ rwmutex' = [rwmutex EXCEPT !.writer = 0]
    /\ tpc' = [tpc EXCEPT ![t] = Idle]
    /\ UNCHANGED mutex

\* asyncMap.Get/Len: m.mutex.RLock(), then the read
asyncMapRLock(t) ==
    /\ tpc[t].at = "called" /\ tpc[t].variant = "eager" /\ tpc[t].kind = "read"
    /\ rwmutex.writer = 0
    /\ rwmutex' = [rwmutex EXCEPT !.readers = @ \cup {t}]
    /\ tpc' = [tpc EXCEPT ![t].at = "in"]
    /\ UNCHANGED mutex

\* asyncMap.Get/Len: m.mutex.RUnlock() after the read
asyncMapRUnlock(t) ==
    /\ Accessing(t, "eager", "read")
    /\ rwmutex' = [rwmutex EXCEPT !.readers = @ \ {t}]
    /\ tpc' = [tpc EXCEPT ![t] = Idle]
    /\ UNCHANGED mutex

\* lazy set/Delete/Clear: cache.mutex.Lock(), then the write
CacheLock(t) ==
    /\ tpc[t].at = "called" /\ tpc[t].variant = "lazy" /\ tpc[t].kind = "write"
    /\ mutex = 0
    /\ mutex' = t
    /\ tpc' = [tpc EXCEPT ![t].at = "in"]
    /\ UNCHANGED rwmutex

\* lazy set/Delete/Clear: cache.mutex.Unlock() after the write
CacheUnlock(t) ==
    /\ Accessing(t, "lazy", "write")
    /\ mutex' = 0
    /\ tpc' = [tpc EXCEPT ![t] = Idle]
    /\ UNCHANGED rwmutex

\* lazy Get/Len/clean: the read of cache.store starts, no lock taken
ReadBegin(t) ==
    /\ tpc[t].at = "called" /\ tpc[t].variant = "lazy" /\ tpc[t].kind = "read"
    /\ tpc' = [tpc EXCEPT ![t].at = "in"]
    /\ UNCHANGED <<rwmutex, mutex>>

\* lazy Get/Len/clean: the read of cache.store is over
ReadEnd(t) ==
    /\ Accessing(t, "lazy", "read")
    /\ tpc' = [tpc EXCEPT ![t] = Idle]
    /\ UNCHANGED <<rwmutex, mutex>>

\* the clock advances, between two invocations of the caller
Tick ==
    /\ now < MaxTime
    /\ Returned
    /\ now' = now + 1
    /\ UNCHANGED <<eagerVars, lazyVars>>

\* New, but for the lazy variant's map
InitButStore ==
    /\ now = 0
    /\ estore = EmptyMap
    /\ timers = EmptyBag
    /\ lastWrite = [k \in Keys |-> NoWrite]
    /\ call = NoCall
    /\ gof = [k \in Keys |-> NoFetch]
    /\ isCleaning = FALSE
    /\ cpc = [c \in Cleaners |-> "idle"]
    /\ todo = [c \in Cleaners |-> {}]
    /\ cur = [c \in Cleaners |-> 0]
    /\ due = [c \in Cleaners |-> {}]
    /\ ranged = [c \in Cleaners |-> SameMap]
    /\ spc = [s \in Stoppers |-> "idle"]
    /\ halted = FALSE
    /\ tpc = [t \in Threads |-> Idle]
    /\ rwmutex = [writer |-> 0, readers |-> {}]
    /\ mutex = 0
    /\ cleared = "unused"

Init == store = EmptyMap /\ InitButStore

\* the maps of entries written with no deadline: entry[V]{value: v}, whose
\* expiresAt is the zero time
NoTTLStores ==
    {[k \in S |-> [value |-> <<k, 1>>, expiresAt |-> ZeroTime]] :
        S \in (SUBSET Keys) \ {{}}}

\* a lazy Cache holding entries with no deadline
InitNoTTL == store \in NoTTLStores /\ InitButStore

NextEager ==
    \/ \E k \in Keys, v \in Payloads : EagerSet(k, v) /\ UNCHANGED <<gof, sweepVars, accessVars, cleared>>
    \/ \E k \in Keys, v \in Payloads, d \in TTLs : SetWithExpiry(k, v, d) /\ UNCHANGED <<gof, sweepVars, accessVars, cleared>>
    \/ \E t \in BagToSet(timers) : FireTimer(t) /\ UNCHANGED <<gof, sweepVars, accessVars, cleared>>
    \/ \E k \in Keys : EagerDelete(k) /\ UNCHANGED <<gof, sweepVars, accessVars, cleared>>
    \/ EagerClear /\ UNCHANGED <<gof, sweepVars, accessVars, cleared>>
    \/ Tick /\ UNCHANGED <<gof, sweepVars, accessVars, cleared>>

\* the lazy cache and its fetch-through layer under one caller
NextLazy ==
    \/ \E v \in Values, d \in TTLs : Set(v, d) /\ UNCHANGED <<gof, sweepVars, accessVars, cleared>>
    \/ \E k \in Keys : Delete(k) /\ UNCHANGED <<gof, sweepVars, accessVars, cleared>>
    \/ Clear /\ UNCHANGED <<gof, sweepVars, accessVars, cleared>>
    \/ \E k \in Keys, d \in TTLs, r \in FetchOneAnswers :
            GetOrFetch(k, d, r) /\ UNCHANGED <<gof, sweepVars, accessVars, cleared>>
    \/ \E arrK \in KeyLists, d \in TTLs, r \in FetchManyAnswers :
            FetchMany(arrK, d, r) /\ UNCHANGED <<gof, sweepVars, accessVars, cleared>>
    \/ \E k \in Keys : CallGet(k) /\ UNCHANGED <<gof, sweepVars, accessVars, cleared>>
    \/ \E keys \in KeyLists : CallGetMany(keys) /\ UNCHANGED <<gof, sweepVars, accessVars, cleared>>
    \/ CallLen /\ UNCHANGED <<gof, sweepVars, accessVars, cleared>>
    \/ Return /\ UNCHANGED <<gof, sweepVars, accessVars, cleared>>
    \/ Tick /\ UNCHANGED <<gof, sweepVars, accessVars, cleared>>

\* gof after GetOrFetch(k, d, r): a miss that fetched records what it fetched
GofAfterFetch(k, d) ==
    IF call'.upstream # <<>> /\ call'.err = Nil
    THEN [gof EXCEPT ![k] = [fetched |-> TRUE, value |-> call'.out, expiresAt |-> now + d]]
    ELSE gof

\* the lazy cache under one caller of Set, Delete, Clear and GetOrFetch, with
\* the history gof kept
NextRefetch ==
    \/ \E v \in Values, d \in TTLs : Set(v, d) /\ UNCHANGED <<gof, sweepVars, accessVars, cleared>>
    \/ \E k \in Keys : Delete(k) /\ gof' = [gof EXCEPT ![k] = NoFetch] /\ UNCHANGED <<sweepVars, accessVars, cleared>>
    \/ Clear /\ gof' = [k \in Keys |-> NoFetch] /\ UNCHANGED <<sweepVars, accessVars, cleared>>
    \/ \E k \in Keys, d \in TTLs, r \in FetchOneAnswers :
            GetOrFetch(k, d, r) /\ gof' = GofAfterFetch(k, d) /\ UNCHANGED <<sweepVars, accessVars, cleared>>
    \/ Return /\ UNCHANGED <<gof, sweepVars, accessVars, cleared>>
    \/ Tick /\ UNCHANGED <<gof, sweepVars, accessVars, cleared>>

\* the lazy cache with one thread in StartCleaning and one caller, who also
\* calls StopCleaning
NextSweep ==
    \/ \E v \in Values, d \in TTLs :
            /\ Set(v, d)
            /\ todo' \in TodoAfterWrite(getKey(v))
            /\ due' = DueAfterWrite(getKey(v))
            /\ UNCHANGED <<gof, isCleaning, cpc, cur, ranged, spc, halted, accessVars, cleared>>
    \/ \E k \in Keys : CallGet(k) /\ UNCHANGED <<gof, sweepVars, accessVars, cleared>>
    \/ \E keys \in KeyLists : CallGetMany(keys) /\ UNCHANGED <<gof, sweepVars, accessVars, cleared>>
    \/ CallLen /\ UNCHANGED <<gof, sweepVars, accessVars, cleared>>
    \/ Return /\ UNCHANGED <<gof, sweepVars, accessVars, cleared>>
    \/ Tick /\ UNCHANGED <<gof, sweepVars, accessVars, cleared>>
    \/ StartCheck(1) /\ UNCHANGED <<gof, accessVars, cleared>>
    \/ StartSet(1) /\ UNCHANGED <<gof, accessVars, cleared>>
    \/ SweepBegin(1) /\ UNCHANGED <<gof, accessVars, cleared>>
    \/ \E k \in Keys : CleanVisit(1, k) /\ UNCHANGED <<gof, accessVars, cleared>>
    \/ CleanDelete(1) /\ UNCHANGED <<gof, accessVars, cleared>>
    \/ CleanDone(1) /\ UNCHANGED <<gof, accessVars, cleared>>
    \/ StopCheck(1) /\ UNCHANGED <<gof, accessVars, cleared>>
    \/ StopDeliver(1, 1) /\ UNCHANGED <<gof, accessVars, cleared>>
    \/ StartExit(1) /\ UNCHANGED <<gof, accessVars, cleared>>

\* the entries the caller writes while the threads start and stop the sweep
SweptValues == {<<k, 1>> : k \in Keys}

\* StartCleaning and StopCleaning called from several threads at once, over a
\* cache whose entries expire
NextStartStop ==
    \/ \E v \in SweptValues :
            /\ Set(v, 0)
            /\ todo' \in TodoAfterWrite(getKey(v))
            /\ due' = DueAfterWrite(getKey(v))
            /\ UNCHANGED <<gof, isCleaning, cpc, cur, ranged, spc, halted, accessVars, cleared>>
    \/ Tick /\ UNCHANGED <<gof, sweepVars, accessVars, cleared>>
    \/ \E c \in Cleaners : StartCheck(c) /\ UNCHANGED <<gof, accessVars, cleared>>
    \/ \E c \in Cleaners : StartSet(c) /\ UNCHANGED <<gof, accessVars, cleared>>
    \/ \E c \in Cleaners : SweepBegin(c) /\ UNCHANGED <<gof, accessVars, cleared>>
    \/ \E c \in Cleaners, k \in Keys : CleanVisit(c, k) /\ UNCHANGED <<gof, accessVars, cleared>>
    \/ \E c \in Cleaners : CleanDelete(c) /\ UNCHANGED <<gof, accessVars, cleared>>
    \/ \E c \in Cleaners : CleanDone(c) /\ UNCHANGED <<gof, accessVars, cleared>>
    \/ \E s \in Stoppers : StopCheck(s) /\ UNCHANGED <<gof, accessVars, cleared>>
    \/ \E s \in Stoppers, c \in Cleaners : StopDeliver(s, c) /\ UNCHANGED <<gof, accessVars, cleared>>
    \/ \E c \in Cleaners : StartExit(c) /\ UNCHANGED <<gof, accessVars, cleared>>

\* no call was made on an eager Cache
EagerUnused == lastWrite = [k \in Keys |-> NoWrite]

\* cleared after a call on the lazy Cache that is neither Clear nor a write
Used == IF cleared = "unused" THEN "no" ELSE cleared

\* Clear beside the other calls, the pending deletions of the eager variant
\* and the sweep of the lazy one. A program is built with one of the two
\* variants of the package: calls on the one exclude calls on the other.
NextClear ==
    \/ \E k \in Keys, v \in Payloads :
            /\ cleared = "unused"
            /\ EagerSet(k, v)
            /\ UNCHANGED <<gof, sweepVars, accessVars, cleared>>
    \/ \E k \in Keys, v \in Payloads, d \in TTLs :
            /\ cleared = "unused"
            /\ SetWithExpiry(k, v, d)
            /\ UNCHANGED <<gof, sweepVars, accessVars, cleared>>
    \/ \E t \in BagToSet(timers) :
            FireTimer(t) /\ UNCHANGED <<gof, sweepVars, accessVars, cleared>>
    \/ /\ cleared = "unused"
       /\ EagerClear
       /\ UNCHANGED <<gof, sweepVars, accessVars, cleared>>
    \/ Tick /\ UNCHANGED <<gof, sweepVars, accessVars, cleared>>
    \/ \E v \in SweptValues, d \in TTLs :
            /\ EagerUnused
            /\ Set(v, d)
            /\ todo' \in TodoAfterWrite(getKey(v))
            /\ due' = DueAfterWrite(getKey(v))
            /\ cleared' = "no"
            /\ UNCHANGED <<gof, isCleaning, cpc, cur, ranged, spc, halted, accessVars>>
    \/ /\ EagerUnused
       /\ Clear
       /\ ranged' = RangedAfterClear
       /\ cleared' = "yes"
       /\ UNCHANGED <<gof, isCleaning, cpc, todo, cur, due, spc, halted, accessVars>>
    \/ \E k \in Keys :
            /\ EagerUnused
            /\ CallGet(k)
            /\ cleared' = Used
            /\ UNCHANGED <<gof, sweepVars, accessVars>>
    \/ /\ EagerUnused
       /\ CallLen
       /\ cleared' = Used
       /\ UNCHANGED <<gof, sweepVars, accessVars>>
    \/ Return /\ UNCHANGED <<gof, sweepVars, accessVars, cleared>>
    \/ /\ EagerUnused
       /\ StartCheck(1)
       /\ cleared' = Used
       /\ UNCHANGED <<gof, accessVars>>
    \/ StartSet(1) /\ UNCHANGED <<gof, accessVars, cleared>>
    \/ SweepBegin(1) /\ UNCHANGED <<gof, accessVars, cleared>>
    \/ \E k \in Keys : CleanVisit(1, k) /\ UNCHANGED <<gof, accessVars, cleared>>
    \/ CleanDelete(1) /\ UNCHANGED <<gof, accessVars, cleared>>
    \/ CleanDone(1) /\ UNCHANGED <<gof, accessVars, cleared>>

\* the threads' map operations, lock by lock
cacheVars == <<now, eagerVars, lazyVars, gof, sweepVars, cleared>>

NextAccess ==
    \/ \E t \in Threads, o \in MapOps : Enter(t, o) /\ UNCHANGED cacheVars
    \/ \E t \in Threads : asyncMapLock(t) /\ UNCHANGED cacheVars
    \/ \E t \in Threads : asyncMapUnlock(t) /\ UNCHANGED cacheVars
    \/ \E t \in Threads : asyncMapRLock(t) /\ UNCHANGED cacheVars
    \/ \E t \in Threads : asyncMapRUnlock(t) /\ UNCHANGED cacheVars
    \/ \E t \in Threads : CacheLock(t) /\ UNCHANGED cacheVars
    \/ \E t \in Threads : CacheUnlock(t) /\ UNCHANGED cacheVars
    \/ \E t \in Threads : ReadBegin(t) /\ UNCHANGED cacheVars
    \/ \E t \in Threads : ReadEnd(t) /\ UNCHANGED cacheVars

SpecEager == Init /\ [][NextEager]_vars

SpecLazy == Init /\ [][NextLazy]_vars

SpecRefetch == Init /\ [][NextRefetch]_vars

SpecSweep == Init /\ [][NextSweep]_vars

SpecStartStop == Init /\ [][NextStartStop]_vars

SpecAccess == Init /\ [][NextAccess]_vars

SpecClear == Init /\ [][NextClear]_vars

\* the sweep and the reads over entries with no deadline
SpecNoTTL == InitNoTTL /\ [][NextSweep]_vars

\* the ticker keeps ticking and the thread in StartCleaning keeps running; a
\* range walks the buckets of the map once, so it reaches every entry that
\* stays in the map and it ends, however many entries are created meanwhile
SpecSweepFair ==
    /\ SpecSweep
    /\ WF_vars(SweepBegin(1) /\ UNCHANGED <<gof, accessVars, cleared>>)
    /\ \A k \in Keys :
           SF_vars(CleanVisit(1, k) /\ UNCHANGED <<gof, accessVars, cleared>>)
    /\ WF_vars(CleanDelete(1) /\ UNCHANGED <<gof, accessVars, cleared>>)
    /\ SF_vars(CleanDone(1) /\ UNCHANGED <<gof, accessVars, cleared>>)

\* every thread inside StartCleaning or StopCleaning keeps running, and a send
\* on signalStopClean is received whenever a select is ready for it again and
\* again (channel senders are served in order and select picks among its
\* ready cases at random); callers are not obliged to make further calls
SpecStartStopFair ==
    /\ SpecStartStop
    /\ \A c \in Cleaners :
           /\ WF_vars(StartSet(c) /\ UNCHANGED <<gof, accessVars, cleared>>)
           /\ WF_vars(CleanDelete(c) /\ UNCHANGED <<gof, accessVars, cleared>>)
           /\ SF_vars(CleanDone(c) /\ UNCHANGED <<gof, accessVars, cleared>>)
           /\ WF_vars(StartExit(c) /\ UNCHANGED <<gof, accessVars, cleared>>)
           /\ \A k \in Keys :
                  SF_vars(CleanVisit(c, k) /\ UNCHANGED <<gof, accessVars, cleared>>)
    /\ \A s \in Stoppers :
           SF_vars((\E c \in Cleaners : StopDeliver(s, c))
                      /\ UNCHANGED <<gof, accessVars, cleared>>)

\* timers fire and the clock advances
SpecEagerFair ==
    /\ SpecEager
    /\ WF_vars(Tick /\ UNCHANGED <<gof, sweepVars, accessVars, cleared>>)
    /\ \A k \in Keys, a \in Times :
           WF_vars(FireTimer([key |-> k, at |-> a]) /\ UNCHANGED <<gof, sweepVars, accessVars, cleared>>)

\* ------------------------------------------------- claims: eager variant
\* C3: for every SetWithExpiry(k, v, ttl) with ttl > 0 that is the latest
\* write to k, Get(k) returns (v, found) at every time strictly before the
\* deadline and not-found at every time at or after it.
C3_GetUntilDeadline ==
    \A k \in Keys :
        (lastWrite[k].op = "SetWithExpiry" /\ lastWrite[k].timed) =>
            IF now < lastWrite[k].deadline
            THEN EagerGet(k) = [value |-> lastWrite[k].value, ok |-> TRUE]
            ELSE ~EagerGet(k).ok

\* the parts of C3 the code keeps: not-found from the deadline on, and the
\* armed deletion eventually leaves the key out of the store
C3_NotFoundFromDeadline ==
    \A k \in Keys :
        (lastWrite[k].op = "SetWithExpiry" /\ lastWrite[k].timed
            /\ now >= lastWrite[k].deadline) => ~EagerGet(k).ok

C3_EventuallyRemoved ==
    \A k \in Keys, a \in Times :
        BagIn([key |-> k, at |-> a], timers) ~> (k \notin DOMAIN estore)

\* C4: after Set(k, v), with no later caller write on k, Get(k) returns
\* (v, found) in every later state, also after the deletions armed by earlier
\* SetWithExpiry calls on k have fired.
C4_SetStaysFound ==
    \A k \in Keys :
        lastWrite[k].op = "Set" =>
            EagerGet(k) = [value |-> lastWrite[k].value, ok |-> TRUE]

\* ------------------------------------------- claims: fetch-through layer
\* this step is the caller's invocation of op; call' holds what it returned
Invokes(op) == call.op = "none" /\ call'.op = op

\* a key is cached and unexpired: the map holds it with a deadline not passed
Live(k) == k \in DOMAIN store /\ store[k].expiresAt >= now

\* C1: every FetchMany invocation makes exactly one Fetcher.FetchMany call,
\* whose key list is the requested keys that Get does not find at the time of
\* the call, in request order; no cached, unexpired key is passed upstream.
C1_OneBatchOfMisses ==
    [][Invokes("FetchMany") =>
         /\ Len(call'.upstream) = 1
         /\ call'.upstream[1].fn = "FetchMany"
         /\ call'.upstream[1].arg = SelectSeq(call'.arg, LAMBDA k : ~Get(k).ok)
         /\ \A i \in 1..Len(call'.upstream[1].arg) : ~Live(call'.upstream[1].arg[i])
         /\ \A i \in 1..Len(call'.arg) :
                ~Live(call'.arg[i]) =>
                    \E j \in 1..Len(call'.upstream[1].arg) :
                        call'.upstream[1].arg[j] = call'.arg[i]]_vars

\* a FetchMany of one cached and one missing key has returned: only the
\* missing key went upstream
C1_Witness ==
    /\ call.op = "FetchMany"
    /\ call.arg = <<1, 2>>
    /\ call.upstream[1].arg = <<2>>
    /\ call.err = Nil
    /\ Get(1).ok /\ Get(2).ok

\* C9: when the Fetcher's FetchMany returns an error, FetchMany returns that
\* error and the store is as it was before the call.
C9_FetchManyErrorKeepsStore ==
    [][(Invokes("FetchMany") /\ call'.upstream[1].err # Nil) =>
         /\ call'.err = call'.upstream[1].err
         /\ store' = store]_vars

\* a FetchMany over a non-empty store has failed on a key it had to fetch
C9_Witness ==
    /\ call.op = "FetchMany"
    /\ call.err = "e2"
    /\ call.upstream[1].arg = <<2>>
    /\ DOMAIN store = {1}

\* C10: when FetchOne returns an error, GetOrFetch returns that error, has
\* called FetchOne exactly once, and leaves the store as it was.
C10_GetOrFetchErrorKeepsStore ==
    [][(Invokes("GetOrFetch") /\ call'.upstream # <<>>
            /\ call'.upstream[1].err # Nil) =>
         /\ call'.err = call'.upstream[1].err
         /\ call'.upstream = <<Upstream("FetchOne", call'.arg, call'.err)>>
         /\ store' = store]_vars

\* a GetOrFetch of an expired key has failed; the expired entry is still there
C10_Witness ==
    /\ call.op = "GetOrFetch"
    /\ call.err = "e1"
    /\ call.arg \in DOMAIN store
    /\ ~Get(call.arg).ok

\* the first half of C2: a GetOrFetch miss calls FetchOne(k) exactly once and,
\* when the fetch succeeds, caches the value with the deadline now + ttl
C2_MissFetchesOnce ==
    (Invokes("GetOrFetch") /\ ~Get(call'.arg).ok) =>
        /\ Len(call'.upstream) = 1
        /\ call'.upstream[1].fn = "FetchOne"
        /\ call'.upstream[1].arg = call'.arg
        /\ call'.err = Nil =>
              /\ getKey(call'.out) \in DOMAIN store'
              /\ store'[getKey(call'.out)] =
                     [value |-> call'.out, expiresAt |-> now + call'.expiresIn]

\* a GetOrFetch hit: the cached value, no error, no call of the Fetcher
IsHitOf(c, v) == c.upstream = <<>> /\ c.out = v /\ c.err = Nil

\* C2 as claimed: after a GetOrFetch(k, ttl) miss that fetched, a GetOrFetch(k)
\* issued before the ttl has elapsed, with no Delete(k) or Clear in between,
\* returns the cached value and makes no FetchOne call.
C2_SecondCallHits ==
    [][/\ C2_MissFetchesOnce
       /\ \A k \in Keys :
            (Invokes("GetOrFetch") /\ call'.arg = k /\ gof[k].fetched
                /\ now < gof[k].expiresAt) => IsHitOf(call', gof[k].value)]_vars

\* the entry the last GetOrFetch miss on k wrote is filed under k and is still
\* the entry of k
Intact(k) ==
    /\ gof[k].fetched
    /\ getKey(gof[k].value) = k
    /\ k \in DOMAIN store
    /\ store[k] = [value |-> gof[k].value, expiresAt |-> gof[k].expiresAt]

\* C2 as amended: the same, for a fetched value whose key is k and whose entry
\* has not been overwritten or removed in between.
C2_SecondCallHitsIntact ==
    [][/\ C2_MissFetchesOnce
       /\ \A k \in Keys :
            (Invokes("GetOrFetch") /\ call'.arg = k /\ Intact(k)
                /\ now < gof[k].expiresAt) => IsHitOf(call', gof[k].value)]_vars

\* a second GetOrFetch(k) has hit the entry that the first one fetched
C2_Witness ==
    /\ call.op = "GetOrFetch"
    /\ Intact(call.arg)
    /\ now < gof[call.arg].expiresAt
    /\ IsHitOf(call, gof[call.arg].value)

\* ------------------------------------------------------ claims: the sweep
\* an entry of the map whose deadline has passed
Stale(k) == k \in DOMAIN store /\ store[k].expiresAt < now

\* C5: what Get returns depends on the stored deadline and the clock alone,
\* whether or not a sweep has run: Get finds a key iff the map holds it with a
\* deadline not passed, GetMany returns the values of exactly those keys, and
\* Len counts the entries whose deadline has passed along with the others.
C5_GetIgnoresSweep ==
    [][/\ Invokes("Get") => call'.out.ok = Live(call'.arg)
       /\ Invokes("GetMany") =>
            LET found == SelectSeq(call'.arg, Live)
            IN  call'.out = [i \in 1..Len(found) |-> store[found[i]].value]
       /\ Invokes("Len") =>
            call'.out = Cardinality({k \in Keys : Live(k)})
                            + Cardinality({k \in Keys : Stale(k)})]_vars

\* with the sweep loop running, Get has not found a key whose expired entry
\* is still in the map, which holds two entries
C5_Witness ==
    /\ call.op = "Get"
    /\ ~call.out.ok
    /\ Stale(call.arg)
    /\ CacheLen = 2
    /\ cpc[1] = "loop"

\* C6: in every reachable state at most one thread is inside the sweep loop.
C6_AtMostOneLoop == Cardinality({c \in Cleaners : Running(c)}) <= 1

\* C7: once a StopCleaning call issued after StartCleaning was invoked has
\* returned, and until StartCleaning is called again, no sweep loop is running.
C7_StopHalts == halted => \A c \in Cleaners : ~Running(c)

\* ---------------------------------------------- claims: the locks
\* the threads reading, and the threads writing, the map of a variant
Readers(variant) == {t \in Threads : Accessing(t, variant, "read")}
Writers(variant) == {t \in Threads : Accessing(t, variant, "write")}

\* no read of the map runs while a write of it does, and no two writes overlap
Exclusive(variant) ==
    /\ Cardinality(Writers(variant)) <= 1
    /\ Writers(variant) = {} \/ Readers(variant) = {}

\* C8: in both variants the accesses to the store map respect readers/writer
\* exclusion.
C8_ReadersWriterExclusion == Exclusive("eager") /\ Exclusive("lazy")

\* the part of C8 the code keeps: asyncMap's accesses are exclusive, and so
\* are the writes of the lazy variant among themselves
C8_EagerExclusive ==
    Exclusive("eager") /\ Cardinality(Writers("lazy")) <= 1


\* ---------------------------------------------------- claims: Clear
\* C11: after Clear has returned and before any later Set or fetch write-back,
\* Len is 0 and Get finds no key, in the eager variant whatever deletions are
\* pending and in the lazy variant whatever the sweep is doing.
C11_ClearEmpties ==
    /\ (\A k \in Keys : lastWrite[k].op = "Clear") =>
            EagerLen = 0 /\ \A k \in Keys : ~EagerGet(k).ok
    /\ cleared = "yes" =>
            /\ CacheLen = 0 /\ \A k \in Keys : ~Get(k).ok
            /\ call.op = "Len" => call.out = 0
            /\ call.op = "Get" => ~call.out.ok

\* Len has returned 0 after a Clear that came between the sweep's test of an
\* expired entry and its Delete
C11_Witness ==
    /\ cleared = "yes"
    /\ call.op = "Len" /\ call.out = 0
    /\ cpc[1] = "delete"


\* ---------------------------------------------------- claims: GetMany
\* C12: GetMany returns the values of the requested keys that are present and
\* unexpired, one per occurrence and in request order, leaves out the others
\* without an error, and neither writes the store nor calls the Fetcher.
C12_GetManyReturnsLive ==
    [][Invokes("GetMany") =>
         LET found == SelectSeq(call'.arg, Live)
         IN  /\ Len(call'.out) = Len(found)
             /\ \A i \in 1..Len(found) : call'.out[i] = store[found[i]].value
             /\ call'.err = Nil
             /\ call'.upstream = <<>>
             /\ store' = store]_vars

\* GetMany of a key asked for twice has returned its value twice, while the
\* store also holds an expired entry
C12_Witness ==
    /\ call.op = "GetMany"
    /\ call.arg = <<1, 1>>
    /\ Len(call.out) = 2
    /\ Stale(2)


\* ------------------------------------------- claims: what the sweep deletes
\* C13: while the sweep loop runs, an entry whose deadline has passed is
\* eventually out of the store, and a pass that completes leaves in the store
\* no entry that had expired when the pass began.
C13_SweepDeletesExpired ==
    /\ [][\A c \in Cleaners :
            (cpc[c] \in {"clean", "delete"} /\ cpc'[c] = "loop") =>
                \A k \in due[c] : k \notin DOMAIN store']_vars
    /\ \A k \in Keys :
            (Stale(k) /\ Running(1)) ~> (~Stale(k) \/ ~Running(1))

\* in the middle of a pass one of the two entries that had expired when it
\* began is out of the store, and Len is down by one
C13_Witness ==
    /\ cpc[1] = "clean"
    /\ due[1] = {1, 2}
    /\ CacheLen = 1


\* ------------------------------------- claims: eager SetWithExpiry, ttl <= 0
\* C14: after SetWithExpiry(k, v, ttl) with ttl <= 0, with no later caller
\* write on k, Get(k) returns (v, found), as it does after Set(k, v).
C14_NonPositiveTTLFound ==
    \A k \in Keys :
        (lastWrite[k].op = "SetWithExpiry" /\ ~lastWrite[k].timed) =>
            EagerGet(k) = [value |-> lastWrite[k].value, ok |-> TRUE]

\* the part of C14 the code keeps: such a call arms no deletion, and its entry
\* stays in the store unless a deletion armed earlier removes it
C14_NoDeletionArmed ==
    [][\A k \in Keys :
          (lastWrite'[k] # lastWrite[k] /\ lastWrite'[k].op = "SetWithExpiry"
              /\ ~lastWrite'[k].timed) =>
                 timers' = timers /\ k \in DOMAIN estore']_vars


\* ------------------------------------------- claims: the instant of expiry
\* thread c's range produces key k in this step
Visits(c, k) == cpc[c] = "clean" /\ k \in todo[c] /\ todo'[c] = todo[c] \ {k}

\* C15: in both variants an entry with a deadline is expired iff
\* now >= expiresAt: Get finds it iff now < expiresAt, and the sweep of the
\* lazy variant deletes an entry it reaches when now >= expiresAt.
C15_ExpiredFromDeadline ==
    [][/\ \A k \in DOMAIN estore :
            ~IsZero(estore[k].expiresAt) =>
                (EagerGet(k).ok <=> now < estore[k].expiresAt)
       /\ \A k \in DOMAIN store : Get(k).ok <=> now < store[k].expiresAt
       /\ \A c \in Cleaners, k \in Keys :
            (Visits(c, k) /\ k \in DOMAIN RangedMap(c)
                /\ now >= RangedMap(c)[k].expiresAt) =>
                    cpc'[c] = "delete" /\ cur'[c] = k]_vars

\* what the code keeps of C15: the eager variant expires an entry from its
\* deadline on, the lazy variant only after it
C15_EagerFromLazyAfter ==
    [][/\ \A k \in DOMAIN estore :
            ~IsZero(estore[k].expiresAt) =>
                (EagerGet(k).ok <=> now < estore[k].expiresAt)
       /\ \A k \in DOMAIN store : Get(k).ok <=> now <= store[k].expiresAt
       /\ \A c \in Cleaners, k \in Keys :
            (Visits(c, k) /\ k \in DOMAIN RangedMap(c)) =>
                (cpc'[c] = "delete" <=> now > RangedMap(c)[k].expiresAt)]_vars


\* ------------------------------------------- claims: entries with no TTL
\* an entry of the lazy map with the zero expiresAt
NoTTL(k) == k \in DOMAIN store /\ IsZero(store[k].expiresAt)

C16_NoTTLExpired ==
    [][\A k \in Keys :
          NoTTL(k) =>
              /\ ~Get(k).ok
              /\ \A c \in Cleaners :
                    (Visits(c, k) /\ ~ranged[c].replaced) =>
                        cpc'[c] = "delete" /\ cur'[c] = k]_vars


\* ------------------------------- claims: the key GetOrFetch stores under
\* C17: a GetOrFetch(key, ttl) miss whose fetched value has another key files
\* the value under that key, getKey(fetchedValue), with the deadline now + ttl,
\* and leaves the requested key as it was, not found; a GetOrFetch(key) made
\* after it, while the key is still not found, fetches again.
C17_StoresUnderValueKey ==
    [][/\ (Invokes("GetOrFetch") /\ call'.upstream # <<>> /\ call'.err = Nil
              /\ getKey(call'.out) # call'.arg) =>
            /\ getKey(call'.out) \in DOMAIN store'
            /\ store'[getKey(call'.out)] =
                   [value |-> call'.out, expiresAt |-> now + call'.expiresIn]
            /\ call'.arg \in DOMAIN store' <=> call'.arg \in DOMAIN store
            /\ call'.arg \in DOMAIN store => store'[call'.arg] = store[call'.arg]
            /\ ~Live(call'.arg) /\ ~GetAt(store', call'.arg, now).ok
       /\ \A k \in Keys :
            (Invokes("GetOrFetch") /\ call'.arg = k /\ gof[k].fetched
                /\ getKey(gof[k].value) # k /\ ~Live(k)) =>
                    call'.upstream = <<Upstream("FetchOne", k, call'.err)>>]_vars

\* a GetOrFetch(1) has fetched a value of key 2, which key 2 holds while key 1
\* is absent, and a second GetOrFetch(1) has called FetchOne again (this time
\* it failed)
C17_Witness ==
    /\ gof[1].fetched /\ getKey(gof[1].value) = 2
    /\ 1 \notin DOMAIN store
    /\ 2 \in DOMAIN store /\ store[2].value = gof[1].value
    /\ call.op = "GetOrFetch" /\ call.arg = 1
    /\ call.upstream # <<>> /\ call.err # Nil


\* ------------------------------------ claims: the sweep and live entries
\* thread c's clean deletes key k from the map in this step
SweepDeletes(c, k) ==
    /\ cpc[c] = "delete" /\ cur[c] = k /\ cpc'[c] # "delete"
    /\ k \in DOMAIN store /\ k \notin DOMAIN store'

\* C18: the sweep never removes a live entry: an entry that clean deletes has
\* reached its deadline at the moment of the deletion, also when the key was
\* written again between the sweep's hasExpired test and its Delete.
C18_SweepSparesLive ==
    [][\A c \in Cleaners, k \in Keys :
          SweepDeletes(c, k) => store[k].expiresAt <= now]_vars

\* --------------------------------------- claims: StopCleaning returns
\* C19: StopCleaning never blocks forever: a call that has passed the
\* isCleaning test and sends on signalStopClean eventually returns, for every
\* interleaving of StartCleaning and StopCleaning calls.
C19_StopReturns ==
    \A s \in Stoppers : (spc[s] = "send") ~> (spc[s] = "idle")

\* ------------------------------ claims: entries and the keys they are under
\* C20: in the lazy variant every entry of the store is filed under the key
\* derived from its own value: for every (k, e) in the store,
\* k = getKey(e.value), whichever of Set, GetOrFetch and FetchMany wrote it.
C20_FiledUnderOwnKey ==
    \A k \in DOMAIN store : getKey(store[k].value) = k

\* FetchMany asked for key 1 alone, the fetcher answered with a value of key 2,
\* and the store holds it under key 2 and nothing under key 1
C20_Witness ==
    /\ call.op = "FetchMany" /\ call.arg = <<1>> /\ call.err = Nil
    /\ DOMAIN store = {2}
    /\ getKey(store[2].value) = 2

====
